---- MODULE Spec2Model ----
(***************************************************************************)
(* Model of tools/manage_mods.py: the dependency resolver                  *)
(* (resolve_dependencies with get_workshop_metadata), the download planner *)
(* and downloader call of __main__, the mirror synchronizer sync_mods with  *)
(* the build config patcher sync_hemtt_launch, the two parsers of the       *)
(* source list, and get_current_version / bump_version of tools/release.py. *)
(*                                                                         *)
(* Mod ids are numbered 1..NumIds in the order in which the source list    *)
(* names them (a dict keeps insertion order, so list(initial_mods.keys())  *)
(* is ascending in this numbering).  Package files are numbered            *)
(* 1..NumFiles; file f stands for the path addons/<f>.pbo.                 *)
(***************************************************************************)
EXTENDS Integers, Sequences, FiniteSets, TLC

\* ---------------------------------------------------------------- bounds
NumIds == 3        \* mod ids of the resolver runs
MaxEdges == 2      \* dependency links on all remote pages together
MaxLines == 2      \* directives of the source list
NumSyncIds == 2    \* mod ids of the full runs
MaxSyncLines == 1  \* directives of the source list of the full runs
NumFiles == 1      \* package file names
MaxLocked == 1     \* entries of the lock record found by the first run
MaxRuns == 2       \* runs of __main__ in a row
MaxWords == 3      \* strokes (words and line breaks) of a source list
MaxCfgLines == 3   \* lines of a build config
MaxVersion == 2    \* largest number a version file starts with
NumAuditIds == 11  \* ids the projects of an audit have locked

Ids == 1..NumIds
SyncIds == 1..NumSyncIds
Files == 1..NumFiles

\* ------------------------------------------------------------- utilities
Range(s) == {s[i] : i \in 1..Len(s)}

RECURSIVE SetToSeq(_)
SetToSeq(S) ==
  IF S = {} THEN <<>>
  ELSE LET m == CHOOSE x \in S : \A y \in S : x <= y
       IN <<m>> \o SetToSeq(S \ {m})

\* d[k] = v on a dict d (a function whose DOMAIN is its key set)
Put(d, k, v) == [x \in DOMAIN d \cup {k} |-> IF x = k THEN v ELSE d[x]]

\* d.get(k, {}) of a lock "mods" dict: <<entry>> or <<>> when k is no key
Get(d, k) == IF k \in DOMAIN d THEN <<d[k]>> ELSE <<>>

EmptyDict == [x \in {} |-> 0]

\* ------------------------------------------------------- metadata client
\* The remote token of a page that carries one, and the value of a lock
\* entry's "updated" field when the key is missing from the entry.
RemoteTs == "1"
NoKey == "absent"

PlaceholderName(mod_id) == "Mod " \o ToString(mod_id)
PageTitle(mod_id) == "Title " \o ToString(mod_id)

\* response: <<>> when urlopen/read raises, <<page>> otherwise; a page has
\* title and timestamp as <<>> (no regex match) or <<text>>, and required,
\* the ids of the links of the RequiredItems section (<<>> without section).
get_workshop_metadata_untitled(mod_id, response) ==
  LET info == [name |-> PlaceholderName(mod_id), dependencies |-> <<>>,
               updated |-> "0"]
  IN IF response = <<>> THEN info
     ELSE [name |-> info.name, updated |-> info.updated,
           dependencies |-> response[1].required]

get_workshop_metadata(mod_id, response) ==
  LET info == [name |-> PlaceholderName(mod_id), dependencies |-> <<>>,
               updated |-> "0"]
  IN IF response = <<>> THEN info
     ELSE LET page == response[1]
          IN [name |-> IF page.title # <<>> THEN page.title[1] ELSE info.name,
              updated |-> IF page.timestamp # <<>> THEN page.timestamp[1]
                          ELSE info.updated,
              dependencies |-> page.required]

\* --------------------------------------------------- source list parsers
\* A line of mod_sources.txt, stripped, is the list of its words.  The
\* numeral of mod id i has 8 digits; "1234567" has 7 and is no mod id.
IdToken(i) == ToString(10000000 + i)

\* the numerals that are mod ids
Numerals == {IdToken(i) : i \in Ids \cup SyncIds}

\* str.lower() of a word
Lower(word) ==
  CASE word = "[IGNORE]" -> "[ignore]"
    [] word = "[Ignored]" -> "[ignored]"
    [] word = "@Ignore" -> "@ignore"
    [] word = "Tag" -> "tag"
    [] \E n \in Numerals : word = "IGNORE=" \o n ->
         "ignore=" \o (CHOOSE n \in Numerals : word = "IGNORE=" \o n)
    [] OTHER -> word

LowerLine(line) == [k \in 1..Len(line) |-> Lower(line[k])]

\* re.findall(r"(\d{8,})", word): the runs of at least 8 digits of a word,
\* as mod ids
DigitRuns(word) ==
  LET hit == {i \in Ids \cup SyncIds :
                word \in {IdToken(i), "id=" \o IdToken(i),
                          "ignore=" \o IdToken(i), "IGNORE=" \o IdToken(i)}}
  IN IF hit = {} THEN <<>> ELSE <<CHOOSE i \in hit : TRUE>>

\* re.findall(r"(\d{8,})", line); re.search(r"(?:id=)?(\d{8,})", line)
\* matches where the first of these runs is
RECURSIVE FindAll(_)
FindAll(line) ==
  IF line = <<>> THEN <<>> ELSE DigitRuns(Head(line)) \o FindAll(Tail(line))

\* not clean_line or clean_line.startswith("#")
BlankOrComment(line) == line = <<>> \/ line[1] = "#"

HasBlockMarker_exact(lower) ==
  \E k \in 1..Len(lower) : lower[k] = "[ignore]"

\* "[ignore]" in lower or "[ignored]" in lower
HasBlockMarker(lower) ==
  \E k \in 1..Len(lower) : lower[k] \in {"[ignore]", "[ignored]"}

HasInlineMarker_assign(lower) ==
  \E k \in 1..Len(lower) : \E n \in Numerals : lower[k] = "ignore=" \o n

\* "ignore=" in lower or "@ignore" in lower
HasInlineMarker(lower) ==
  \E k \in 1..Len(lower) :
    \/ lower[k] = "@ignore"
    \/ lower[k] = "ignore="
    \/ \E n \in Numerals : lower[k] = "ignore=" \o n

RECURSIVE Join(_)
Join(words) ==
  IF words = <<>> THEN ""
  ELSE IF Len(words) = 1 THEN words[1]
  ELSE words[1] \o " " \o Join(Tail(words))

\* lines 63-65: clean_line.split("#", 1)[1].strip(), or "" without a "#"
TagOf(line) ==
  LET at == {k \in 1..Len(line) : line[k] = "#"}
  IN IF at = {} THEN ""
     ELSE LET first == CHOOSE k \in at : \A j \in at : k <= j
          IN Join(SubSeq(line, first + 1, Len(line)))

\* lines 47-66: the loop of get_mod_ids_from_file over the remaining lines
RECURSIVE ModIdsFrom(_, _)
ModIdsFrom(lines, mods) ==
  IF lines = <<>> THEN mods
  ELSE LET clean_line == Head(lines)
           lower == LowerLine(clean_line)
           match == FindAll(clean_line)
       IN IF BlankOrComment(clean_line) THEN ModIdsFrom(Tail(lines), mods)
          ELSE IF HasBlockMarker(lower) THEN mods
          ELSE IF HasInlineMarker(lower) THEN ModIdsFrom(Tail(lines), mods)
          ELSE IF match # <<>>
               THEN ModIdsFrom(Tail(lines),
                               Put(mods, match[1], TagOf(clean_line)))
               ELSE ModIdsFrom(Tail(lines), mods)

get_mod_ids_from_file(lines) == ModIdsFrom(lines, EmptyDict)

\* lines 76-96: the loop of get_ignored_ids_from_file
RECURSIVE IgnoredFrom(_, _, _)
IgnoredFrom(lines, ignore_block, ignored) ==
  IF lines = <<>> THEN ignored
  ELSE LET clean_line == LowerLine(Head(lines))
           matches == Range(FindAll(clean_line))
       IN IF BlankOrComment(clean_line)
          THEN IgnoredFrom(Tail(lines), ignore_block, ignored)
          ELSE IF HasBlockMarker(clean_line)
          THEN IgnoredFrom(Tail(lines), TRUE, ignored)
          ELSE IF ignore_block \/ HasInlineMarker(clean_line)
          THEN IgnoredFrom(Tail(lines), ignore_block, ignored \cup matches)
          ELSE IgnoredFrom(Tail(lines), ignore_block, ignored)

get_ignored_ids_from_file(lines) == IgnoredFrom(lines, FALSE, {})

\* a source list that names the wanted ids one per line, in ascending order,
\* each with its tag, and the ignored ids on one inline ignore line
WantedLine(i, tag) ==
  IF tag = "" THEN <<IdToken(i)>> ELSE <<IdToken(i), "#", tag>>

SourceText(mods, ignored) ==
  LET wanted == SetToSeq(DOMAIN mods)
      ign == SetToSeq(ignored)
  IN [k \in 1..Len(wanted) |-> WantedLine(wanted[k], mods[wanted[k]])]
     \o IF ignored = {} THEN <<>>
        ELSE << <<"@ignore">> \o [k \in 1..Len(ign) |-> IdToken(ign[k])] >>

\* -------------------------------------------------- build config patcher
\* A line of .hemtt/launch.toml is its text without the newline.
ElementLine(mid) == "    \"" \o ToString(mid) \o "\","

\* "workshop =" in line
HasWorkshop(line) == line \in {"workshop = [", "workshop = []"}

\* "]" in line
HasClose(line) == line \in {"]", "workshop = []", "[default]", "dlc = []"}

IdLines_descending(mod_ids) ==
  LET sorted == SetToSeq(mod_ids)
  IN [k \in 1..Len(sorted) |-> ElementLine(sorted[Len(sorted) + 1 - k])]

\* lines 396-397
IdLines(mod_ids) ==
  LET sorted == SetToSeq(mod_ids)
  IN [k \in 1..Len(sorted) |-> ElementLine(sorted[k])]

\* lines 392-404: the loop over the lines that are left
RECURSIVE PatchLines(_, _, _)
PatchLines(lines, in_workshop, mod_ids) ==
  IF lines = <<>> THEN <<>>
  ELSE LET line == Head(lines)
       IN IF HasWorkshop(line)
          THEN <<line>> \o IdLines(mod_ids)
               \o PatchLines(Tail(lines), TRUE, mod_ids)
          ELSE IF in_workshop
          THEN IF HasClose(line)
               THEN <<line>> \o PatchLines(Tail(lines), FALSE, mod_ids)
               ELSE PatchLines(Tail(lines), TRUE, mod_ids)
          ELSE <<line>> \o PatchLines(Tail(lines), FALSE, mod_ids)

\* lines 383-406; launch.exists is os.path.exists(launch_path)
sync_hemtt_launch(launch, mod_ids) ==
  IF ~launch.exists THEN launch
  ELSE [exists |-> TRUE, lines |-> PatchLines(launch.lines, FALSE, mod_ids)]

\* a build config with a workshop array of one stale element
LaunchToml ==
  <<"[default]", "workshop = [", ElementLine(NumSyncIds), "]",
    "mission = test">>

\* --------------------------------------------------------------- state
VARIABLES
  pc,             \* position of the process
  run,            \* number of the current run of __main__
  initial_mods,   \* wanted-set: id -> display tag ("" when none)
  ignored_ids,    \* IgnoreSet
  remote,         \* the remote service: id -> page
  to_check,       \* resolve_dependencies: the worklist
  processed,      \* resolve_dependencies: processed
  resolved_info,  \* resolve_dependencies: id -> metadata
  order,          \* insertion order of the keys of resolved_info
  fetched,        \* id -> number of get_workshop_metadata calls this run
  fetch_failed,   \* ids whose fetch raised in this run
  lock,           \* mods.lock on disk: id -> entry
  mirror,         \* package files present in addons/
  cache,          \* workshop cache: id -> Unseen, Absent or list of pbo names
  needs_download, \* __main__: needs_download
  lock_data,      \* sync_mods: lock_data["mods"]
  current_mods,   \* sync_mods: current_mods
  idx,            \* sync_mods: position of the loop in resolved_info.items()
  lock0,          \* mods.lock as the run found it
  mirror0,        \* addons/ as the run found it
  copied,         \* ids whose package files sync_mods copied in this run
  skipped,        \* ids sync_mods skipped in this run for a missing cache dir
  synced,         \* id -> token of the latest completed sync that copied it
  steamcmd,       \* steamcmd invocations of this run: ids asked, exit status
  base_workshop_path, \* sync_mods: "unset", "found" or "none"
  addons_made,    \* os.makedirs(ADDONS_DIR) was called in this run
  keys,           \* keys/: "found" as the run found it, "empty" once purged
  lock_writes,    \* number of times this run wrote mods.lock
  launch,         \* .hemtt/launch.toml: whether it exists, and its lines
  launch_writes,  \* number of times this run wrote .hemtt/launch.toml
  resolved_prev,  \* ResolvedSet of the previous run
  failed_prev,    \* ids whose fetch raised in the previous run
  cache_prev,     \* the cache directories as the previous run left them
  source,         \* mod_sources.txt: its lines, each a list of words
  version_file,   \* script_version.hpp: the text of its three defines
  new_version,    \* release.py: the string bump_version returned
  bump_from,      \* release.py: <<part, version tuple>> of the latest bump
  launch0,        \* .hemtt/launch.toml as the process found it
  projects,       \* audit-updates: the mods.lock of each project, in order
  mod_registry,   \* cmd_audit_updates: id -> locked token
  work_queue,     \* the executor's queue: submitted calls no thread took yet
  futures,        \* executor.map: one future per submitted call, in order
  running,        \* calls of check_mod a worker thread is executing
  live_results,   \* cmd_audit_updates: live_results
  audit_fetches,  \* id -> number of get_live_timestamp calls
  down            \* ids whose page request raises or carries no token

resolveVars == <<to_check, processed, resolved_info, order, fetched,
                 fetch_failed>>
inputVars == <<initial_mods, ignored_ids, remote>>
diskVars == <<lock, mirror, cache>>
effectVars == <<steamcmd, base_workshop_path, addons_made, keys,
                lock_writes, launch, launch_writes>>
prevVars == <<resolved_prev, failed_prev, cache_prev>>
releaseVars == <<version_file, new_version, bump_from>>
auditVars == <<projects, mod_registry, work_queue, futures, running,
               live_results, audit_fetches, down>>
restVars == <<lock, mirror, cache, needs_download, lock_data, current_mods,
             idx, lock0, mirror0, copied, skipped, synced, effectVars,
             prevVars,
             source, releaseVars, launch0,
                 auditVars>>
syncVars == <<lock_data, current_mods, idx>>
histVars == <<lock0, mirror0, copied, skipped, synced>>

vars == <<pc, run, inputVars, resolveVars, diskVars, needs_download,
         syncVars, histVars, effectVars, prevVars, source, releaseVars, launch0,
                 auditVars>>

\* ----------------------------------------------------------- input sets
Tags == {"", "Tag"}

\* source lists of at most n directives naming ids of U: the wanted-set
\* (id -> tag, from get_mod_ids_from_file) and the IgnoreSet (from
\* get_ignored_ids_from_file); one id may be named by both
SourceLists(U, n, tags) ==
  {sl \in [mods : UNION {[W -> tags] : W \in SUBSET U}, ignored : SUBSET U] :
     Cardinality(DOMAIN sl.mods) + Cardinality(sl.ignored) <= n}

Page(mod_id, req) ==
  [title |-> <<PageTitle(mod_id)>>, timestamp |-> <<RemoteTs>>,
   required |-> req]

\* dependency graphs over U with at most n edges in total: id -> list of ids
RECURSIVE Graphs(_, _)
Graphs(U, n) ==
  IF n = 0 THEN {[x \in Ids |-> <<>>]}
  ELSE LET smaller == Graphs(U, n - 1)
       IN smaller \cup {[g EXCEPT ![x] = Append(@, y)] :
                          g \in smaller, x \in U, y \in U}

Remotes(U, n) == {[x \in Ids |-> Page(x, g[x])] : g \in Graphs(U, n)}

\* ------------------------------------------------- resolve_dependencies
\* lines 149-153: the two guards that skip a popped id
SkipPopped(mid, proc, initial, resolved) ==
  \/ mid \in proc /\ mid \notin DOMAIN initial
  \/ mid \in proc /\ mid \in DOMAIN resolved

\* line 168: whether a dependency id is appended to the worklist
ShouldQueue(dep_id, proc, queue) ==
  dep_id \notin proc /\ dep_id \notin Range(queue)

\* lines 166-171: the loop over meta["dependencies"]
RECURSIVE QueueDeps(_, _, _)
QueueDeps(deps, proc, queue) ==
  IF deps = <<>> THEN queue
  ELSE QueueDeps(Tail(deps), proc,
                 IF ShouldQueue(Head(deps), proc, queue)
                 THEN Append(queue, Head(deps)) ELSE queue)

\* lines 156-157: display tag override
ApplyTag(mid, meta, initial) ==
  IF mid \in DOMAIN initial /\ initial[mid] # ""
  THEN [meta EXCEPT !.name = initial[mid]] ELSE meta

\* line 164
MarkProcessed_dropped(proc, mid) == proc

MarkProcessed(proc, mid) == proc \cup {mid}

\* line 148, leaving the popped id at the head of the worklist
Popped_kept(queue) == queue

\* line 148: what to_check.pop(0) leaves of the worklist
Popped(queue) == Tail(queue)

\* lines 142-145
ResolveBegin ==
  /\ pc = "resolve"
  /\ resolved_info' = EmptyDict
  /\ order' = <<>>
  /\ to_check' = SetToSeq(DOMAIN initial_mods)
  /\ processed' = ignored_ids
  /\ pc' = "loop"
  /\ UNCHANGED <<run, inputVars, fetched, fetch_failed, restVars>>

\* lines 147-171: one iteration of the while loop
ResolveStep ==
  /\ pc = "loop"
  /\ to_check # <<>>
  /\ LET mid == Head(to_check)
         rest == Popped(to_check)
     IN IF SkipPopped(mid, processed, initial_mods, resolved_info)
        THEN /\ to_check' = rest
             /\ UNCHANGED <<processed, resolved_info, order, fetched,
                            fetch_failed>>
        ELSE \E ok \in BOOLEAN :
               LET response == IF ok THEN <<remote[mid]>> ELSE <<>>
                   meta == ApplyTag(mid, get_workshop_metadata(mid, response),
                                    initial_mods)
                   proc == MarkProcessed(processed, mid)
               IN /\ fetched' = [fetched EXCEPT ![mid] = @ + 1]
                  /\ fetch_failed' = IF ok THEN fetch_failed
                                     ELSE fetch_failed \cup {mid}
                  /\ resolved_info' = Put(resolved_info, mid, meta)
                  /\ order' = IF mid \in DOMAIN resolved_info THEN order
                              ELSE Append(order, mid)
                  /\ processed' = proc
                  /\ to_check' = QueueDeps(meta.dependencies, proc, rest)
  /\ UNCHANGED <<pc, run, inputVars, restVars>>

\* line 173
ResolveReturn ==
  /\ pc = "loop"
  /\ to_check = <<>>
  /\ pc' = "returned"
  /\ UNCHANGED <<run, inputVars, resolveVars, restVars>>

\* ------------------------------------------------------ lock record, disk
\* lists of package files (a directory walk lists a name once)
FileLists == {SetToSeq(S) : S \in SUBSET Files}

\* entries a lock record can hold before the first run: any file list, and
\* an "updated" token that is missing, "0", the remote one or another one
OldTs == "2"
LockEntries(mid) ==
  [files : FileLists, name : {"Locked " \o ToString(mid)},
   dependencies : {<<>>}, updated : {NoKey, "0", RemoteTs, OldTs}]

LockStores(U, n) ==
  UNION {{d \in [K -> UNION {LockEntries(k) : k \in K}] :
            \A k \in K : d[k] \in LockEntries(k)} :
         K \in {S \in SUBSET U : Cardinality(S) <= n}}

Unseen == [dir |-> "unseen", pbos |-> <<>>]
Absent == [dir |-> "absent", pbos |-> <<>>]
CacheDirs == {Absent} \cup [dir : {"present"}, pbos : FileLists]

\* locked.get("updated", "0") on d.get(mid, {})
LockedTs(locked) ==
  IF locked = <<>> \/ locked[1].updated = NoKey THEN "0"
  ELSE locked[1].updated

\* lines 331 and 436: all(os.path.exists(f) ...) if locked.get("files")
FilesExist(locked, disk) ==
  IF locked # <<>> /\ locked[1].files # <<>>
  THEN \A f \in Range(locked[1].files) : f \in disk
  ELSE FALSE

\* ------------------------------------------------------ download planner
NeedsDownload_inverted(mid, info, mods, disk) ==
  LET locked_mod == Get(mods, mid)
      locked_ts == LockedTs(locked_mod)
      current_ts == info.updated
      files_exist == FilesExist(locked_mod, disk)
  IN IF locked_ts = "0" /\ files_exist THEN FALSE
     ELSE IF current_ts = locked_ts THEN TRUE
     ELSE ~files_exist

\* lines 431-447: whether mid is appended to needs_download
NeedsDownload(mid, info, mods, disk) ==
  LET locked_mod == Get(mods, mid)
      locked_ts == LockedTs(locked_mod)
      current_ts == info.updated
      files_exist == FilesExist(locked_mod, disk)
  IN IF locked_ts = "0" /\ files_exist THEN FALSE
     ELSE IF current_ts # locked_ts THEN TRUE
     ELSE ~files_exist

RECURSIVE PlanDownloads(_, _, _, _)
PlanDownloads(ids, resolved, mods, disk) ==
  IF ids = <<>> THEN <<>>
  ELSE LET mid == Head(ids)
           tail == PlanDownloads(Tail(ids), resolved, mods, disk)
       IN IF NeedsDownload(mid, resolved[mid], mods, disk)
          THEN <<mid>> \o tail ELSE tail

\* lines 414-420 and 453-456: parse the source list, then resolve, or go
\* straight to sync_mods({}) when no mod is wanted
Main ==
  /\ pc = "main"
  /\ initial_mods' = get_mod_ids_from_file(source)
  /\ ignored_ids' = get_ignored_ids_from_file(source)
  /\ resolved_info' = EmptyDict
  /\ order' = <<>>
  /\ pc' = IF DOMAIN initial_mods' # {} THEN "resolve" ELSE "sync"
  /\ lock0' = lock
  /\ mirror0' = mirror
  /\ UNCHANGED <<run, remote, to_check, processed, fetched, fetch_failed,
                 diskVars, needs_download, syncVars, copied, skipped,
                 synced, effectVars, prevVars, source, releaseVars, launch0,
                 auditVars>>

\* lines 422-447
Plan ==
  /\ pc = "returned"
  /\ needs_download' = PlanDownloads(order, resolved_info, lock, mirror)
  /\ pc' = "download"
  /\ UNCHANGED <<run, inputVars, resolveVars, diskVars, syncVars, histVars,
                 effectVars, prevVars, source, releaseVars, launch0,
                 auditVars>>

AfterSteamcmd_retried(returncode) ==
  IF returncode = 0 THEN "sync" ELSE "download"

\* lines 214-220: CalledProcessError ends the process with sys.exit(1)
AfterSteamcmd(returncode) ==
  IF returncode = 0 THEN "sync" ELSE "failed"

CommandIds_none(mod_ids) == <<>>

\* lines 205-206: the ids of the +workshop_download_item arguments
RECURSIVE CommandIds(_)
CommandIds(mod_ids) ==
  IF mod_ids = <<>> THEN <<>>
  ELSE <<Head(mod_ids)>> \o CommandIds(Tail(mod_ids))

\* lines 449-452 with run_steamcmd (175-220): nothing to do for an empty
\* list; otherwise steamcmd exits with 0, leaving whatever it fetched in the
\* cache directories of the requested ids, or exits non-zero and the process
\* ends with sys.exit(1)
RunSteamcmd ==
  /\ pc = "download"
  /\ IF needs_download = <<>>
     THEN pc' = "sync" /\ UNCHANGED <<cache, steamcmd>>
     ELSE \E returncode \in {0, 1} :
            /\ steamcmd' = Append(steamcmd,
                                  [ids |-> CommandIds(needs_download),
                                   returncode |-> returncode])
            /\ IF returncode = 0
               THEN /\ cache' = [x \in Ids |->
                                   IF x \in Range(needs_download)
                                   THEN Unseen ELSE cache[x]]
                    /\ pc' = AfterSteamcmd(returncode)
               ELSE pc' = AfterSteamcmd(returncode) /\ UNCHANGED cache
  /\ UNCHANGED <<run, inputVars, resolveVars, lock, mirror, needs_download,
                 syncVars, histVars, base_workshop_path, addons_made, keys,
                 lock_writes, launch, launch_writes, prevVars, source,
                 releaseVars, launch0,
                 auditVars>>

\* ------------------------------------------------------------- sync_mods
NewLockMods_carried(mods) == mods

\* line 290: current_mods = {}
NewLockMods(mods) == EmptyDict

CacheRootUsable_always(path) == TRUE

\* lines 301-313: a candidate directory exists ("found", which also stands
\* for the scratch directory made under a test framework), or none does and
\* the process ends with sys.exit(1)
CacheRootUsable(path) == path = "found"

\* lines 317-320 without the rmtree: makedirs alone keeps what is there
Purged_kept(dir) == IF dir = "missing" THEN "empty" ELSE dir

\* lines 317-320: rmtree when keys/ exists, then makedirs
Purged(dir) == "empty"

\* lines 282-320: load the lock record, find the cache root (or exit), make
\* addons/, purge keys/
SyncBegin ==
  /\ pc = "sync"
  /\ \E path \in {"found", "none"} :
       /\ base_workshop_path' = path
       /\ IF CacheRootUsable(path)
          THEN /\ lock_data' = lock
               /\ current_mods' = NewLockMods(lock)
               /\ idx' = 1
               /\ copied' = {}
               /\ skipped' = {}
               /\ addons_made' = TRUE
               /\ keys' = Purged(keys)
               /\ pc' = "sync_loop"
          ELSE /\ pc' = "failed"
               /\ UNCHANGED <<syncVars, copied, skipped, addons_made, keys>>
  /\ UNCHANGED <<run, inputVars, resolveVars, diskVars, needs_download,
                 lock0, mirror0, synced, steamcmd, lock_writes, launch,
                 launch_writes, prevVars, source, releaseVars, launch0,
                 auditVars>>

RetroLock_skipped(locked, current_ts, disk) == locked

\* lines 334-338: the locked entry after the retroactive lock
RetroLock(locked, current_ts, disk) ==
  IF LockedTs(locked) = "0" /\ FilesExist(locked, disk)
  THEN <<[locked[1] EXCEPT !.updated = current_ts]>>
  ELSE locked

\* line 340, on the entry RetroLock left
UpToDate(locked, current_ts, disk) ==
  current_ts = LockedTs(locked) /\ FilesExist(locked, disk)

\* lines 351-366: the entry of a mod copied from its cache directory
CopiedEntry(info, pbos) ==
  [files |-> pbos, name |-> info.name, dependencies |-> info.dependencies,
   updated |-> info.updated]

CarryOver_forgotten(mods, mid, locked) == mods

\* line 343: current_mods[mid] = locked_info
CarryOver(mods, mid, locked) == Put(mods, mid, locked)

MissingCache_fatal(at) == "failed"

\* lines 346-348: warn and continue with the next id
MissingCache(at) == at

\* lines 322-366: one iteration of the loop over resolved_info.items()
SyncMod ==
  /\ pc = "sync_loop"
  /\ idx <= Len(order)
  /\ LET mid == order[idx]
         info == resolved_info[mid]
         current_ts == info.updated
         locked_info == RetroLock(Get(lock_data, mid), current_ts, mirror)
     IN /\ lock_data' = IF locked_info = <<>> THEN lock_data
                        ELSE Put(lock_data, mid, locked_info[1])
        /\ IF UpToDate(locked_info, current_ts, mirror)
           THEN /\ current_mods' = CarryOver(current_mods, mid, locked_info[1])
                /\ pc' = pc
                /\ UNCHANGED <<mirror, cache, copied, skipped>>
           ELSE \E dir \in IF cache[mid] = Unseen THEN CacheDirs
                           ELSE {cache[mid]} :
                  /\ cache' = [cache EXCEPT ![mid] = dir]
                  /\ IF dir = Absent
                     THEN /\ skipped' = skipped \cup {mid}
                          /\ pc' = MissingCache(pc)
                          /\ UNCHANGED <<current_mods, mirror, copied>>
                     ELSE /\ current_mods' =
                               Put(current_mods, mid,
                                   CopiedEntry(info, dir.pbos))
                          /\ mirror' = mirror \cup Range(dir.pbos)
                          /\ copied' = copied \cup {mid}
                          /\ pc' = pc
                          /\ UNCHANGED skipped
  /\ idx' = idx + 1
  /\ UNCHANGED <<run, inputVars, resolveVars, lock, needs_download,
                 lock0, mirror0, synced, effectVars, prevVars, source,
                 releaseVars, launch0,
                 auditVars>>

StaleFiles_kept(mods, resolved) ==
  UNION {Range(mods[old_mid].files) :
           old_mid \in {k \in DOMAIN mods : k \in DOMAIN resolved}}

\* lines 370-376: the files of the lock entries that are no longer resolved
StaleFiles(mods, resolved) ==
  UNION {Range(mods[old_mid].files) :
           old_mid \in {k \in DOMAIN mods : k \notin DOMAIN resolved}}

Removed_none(disk, stale) == disk

\* lines 374-376: os.remove of every stale path that exists
Removed(disk, stale) == disk \ stale

LoopDone_early(position, items) == TRUE

\* line 322: the loop over resolved_info.items() is exhausted
LoopDone(position, items) == position > Len(items)

\* lines 369-376
SyncCleanup ==
  /\ pc = "sync_loop"
  /\ LoopDone(idx, order)
  /\ mirror' = Removed(mirror, StaleFiles(lock_data, resolved_info))
  /\ pc' = "write"
  /\ UNCHANGED <<run, inputVars, resolveVars, lock, cache, needs_download,
                 syncVars, histVars, effectVars, prevVars, source,
                 releaseVars, launch0,
                 auditVars>>

\* lines 378-379: dump current_mods to mods.lock
SyncWriteLock ==
  /\ pc = "write"
  /\ lock' = current_mods
  /\ lock_writes' = lock_writes + 1
  /\ synced' = [x \in DOMAIN synced \cup copied |->
                  IF x \in copied THEN current_mods[x].updated
                  ELSE synced[x]]
  /\ pc' = "patch"
  /\ UNCHANGED <<run, inputVars, resolveVars, mirror, cache, needs_download,
                 syncVars, lock0, mirror0, copied, skipped, steamcmd,
                 base_workshop_path, addons_made, keys, launch, launch_writes,
                 prevVars, source, releaseVars, launch0,
                 auditVars>>

\* line 381: sync_mods hands the resolved ids to the patcher, and returns
PatchLaunch ==
  /\ pc = "patch"
  /\ launch' = sync_hemtt_launch(launch, DOMAIN resolved_info)
  /\ launch_writes' = IF launch.exists THEN launch_writes + 1
                      ELSE launch_writes
  /\ pc' = "done"
  /\ UNCHANGED <<run, inputVars, resolveVars, diskVars, needs_download,
                 syncVars, histVars, steamcmd, base_workshop_path,
                 addons_made, keys, lock_writes, prevVars, source,
                 releaseVars, launch0,
                 auditVars>>

\* the operator starts the tool again on the same source list; the new
\* process starts with fresh variables
StartAgain ==
  /\ run' = run + 1
  /\ pc' = "main"
  /\ initial_mods' = EmptyDict
  /\ ignored_ids' = {}
  /\ to_check' = <<>>
  /\ processed' = {}
  /\ resolved_info' = EmptyDict
  /\ order' = <<>>
  /\ fetched' = [x \in Ids |-> 0]
  /\ fetch_failed' = {}
  /\ needs_download' = <<>>
  /\ lock_data' = EmptyDict
  /\ current_mods' = EmptyDict
  /\ idx' = 1
  /\ lock0' = lock
  /\ mirror0' = mirror
  /\ copied' = {}
  /\ skipped' = {}
  /\ steamcmd' = <<>>
  /\ base_workshop_path' = "unset"
  /\ addons_made' = FALSE
  /\ keys' = "found"
  /\ lock_writes' = 0
  /\ launch_writes' = 0
  /\ resolved_prev' = resolved_info
  /\ failed_prev' = fetch_failed
  /\ cache_prev' = cache
  /\ UNCHANGED <<remote, diskVars, synced, launch, source, releaseVars, launch0,
                 auditVars>>

NextRun ==
  /\ pc = "done"
  /\ run < MaxRuns
  /\ StartAgain

\* --------------------------------------------------- interrupted sync
\* the process is killed between two iterations of the loop of sync_mods,
\* between the loop and the cleanup, or between the cleanup and the lock write
Crash ==
  /\ pc \in {"sync_loop", "write"}
  /\ run = 1
  /\ pc' = "crashed"
  /\ UNCHANGED <<run, inputVars, resolveVars, restVars>>

\* lines 358-366: the process is killed in the copy loop of a mod, after k of
\* its package files were copied
CrashInCopy ==
  /\ pc = "sync_loop"
  /\ run = 1
  /\ idx <= Len(order)
  /\ LET mid == order[idx]
         current_ts == resolved_info[mid].updated
         locked_info == RetroLock(Get(lock_data, mid), current_ts, mirror)
     IN /\ ~UpToDate(locked_info, current_ts, mirror)
        /\ \E dir \in IF cache[mid] = Unseen THEN CacheDirs \ {Absent}
                        ELSE {cache[mid]} \ {Absent} :
             \E k \in 0..(Len(dir.pbos) - 1) :
               /\ cache' = [cache EXCEPT ![mid] = dir]
               /\ mirror' = mirror \cup Range(SubSeq(dir.pbos, 1, k))
  /\ pc' = "crashed"
  /\ UNCHANGED <<run, inputVars, resolveVars, lock, needs_download,
                 syncVars, histVars, effectVars, prevVars, source,
                 releaseVars, launch0,
                 auditVars>>

\* lines 370-376: the files the cleanup removes, in the order of the loop
RECURSIVE Removals(_, _, _)
Removals(ids, mods, resolved) ==
  IF ids = <<>> THEN <<>>
  ELSE (IF Head(ids) \in DOMAIN resolved THEN <<>> ELSE mods[Head(ids)].files)
       \o Removals(Tail(ids), mods, resolved)

\* the process is killed in the cleanup loop, after k of its removals
CrashInCleanup ==
  /\ pc = "sync_loop"
  /\ run = 1
  /\ idx > Len(order)
  /\ LET removals == Removals(SetToSeq(DOMAIN lock_data), lock_data,
                              resolved_info)
     IN \E k \in 0..(Len(removals) - 1) :
          mirror' = mirror \ Range(SubSeq(removals, 1, k))
  /\ pc' = "crashed"
  /\ UNCHANGED <<run, inputVars, resolveVars, lock, cache, needs_download,
                 syncVars, histVars, effectVars, prevVars, source,
                 releaseVars, launch0,
                 auditVars>>

\* the operator starts the tool again after the crash
Restart ==
  /\ pc = "crashed"
  /\ StartAgain

\* a run of resolve_dependencies alone touches no file
NoWorkspace ==
  /\ lock = EmptyDict
  /\ mirror = {}
  /\ cache = [x \in Ids |-> Unseen]
  /\ needs_download = <<>>
  /\ lock_data = EmptyDict
  /\ current_mods = EmptyDict
  /\ idx = 1
  /\ lock0 = EmptyDict
  /\ mirror0 = {}
  /\ copied = {}
  /\ skipped = {}
  /\ synced = EmptyDict

\* workspace_manager.py has not been started
AuditIdle ==
  /\ projects = <<>>
  /\ mod_registry = EmptyDict
  /\ work_queue = <<>>
  /\ futures = <<>>
  /\ running = {}
  /\ live_results = EmptyDict
  /\ audit_fetches = EmptyDict
  /\ down = {}

\* nothing has run yet in this process
FreshProcess ==
  /\ steamcmd = <<>>
  /\ base_workshop_path = "unset"
  /\ addons_made = FALSE
  /\ keys = "found"
  /\ lock_writes = 0
  /\ launch_writes = 0
  /\ resolved_prev = EmptyDict
  /\ failed_prev = {}
  /\ cache_prev = [x \in Ids |-> Unseen]

\* the version file of tools/release.py as its tests write it; manage_mods
\* never touches it
ReleaseIdle ==
  /\ version_file = [MAJOR |-> "1", MINOR |-> "0", PATCHLVL |-> "0"]
  /\ new_version = ""
  /\ bump_from = <<>>

\* the tool is started on a source list, in a workspace with any lock record
\* and any mirror;
\* the pages of the wanted mods list no required items here (SpecResolve
\* runs the resolver over dependency graphs), and the cache directories are
\* looked at when sync_mods first needs them
InitWith(stores, mirrors) ==
  /\ pc = "main"
  /\ run = 1
  /\ \E sl \in SourceLists(SyncIds, MaxSyncLines, {""}) :
       source = SourceText(sl.mods, sl.ignored)
  /\ initial_mods = EmptyDict
  /\ ignored_ids = {}
  /\ remote \in Remotes(SyncIds, 0)
  /\ to_check = <<>>
  /\ processed = {}
  /\ resolved_info = EmptyDict
  /\ order = <<>>
  /\ fetched = [x \in Ids |-> 0]
  /\ fetch_failed = {}
  /\ lock \in stores
  /\ mirror \in mirrors
  /\ cache = [x \in Ids |-> Unseen]
  /\ needs_download = <<>>
  /\ lock_data = EmptyDict
  /\ current_mods = EmptyDict
  /\ idx = 1
  /\ lock0 = lock
  /\ mirror0 = mirror
  /\ copied = {}
  /\ skipped = {}
  /\ synced = EmptyDict
  /\ launch = [exists |-> TRUE, lines |-> LaunchToml]
  /\ launch0 = launch
  /\ AuditIdle
  /\ FreshProcess
  /\ ReleaseIdle

Init == InitWith(LockStores(SyncIds, MaxLocked), SUBSET Files)

\* one run of __main__
Next ==
  \/ Main \/ ResolveBegin \/ ResolveStep \/ ResolveReturn \/ Plan
  \/ RunSteamcmd \/ SyncBegin \/ SyncMod \/ SyncCleanup \/ SyncWriteLock
  \/ PatchLaunch

Spec == Init /\ [][Next]_vars

\* runs of __main__ in a row
NextAgain == Next \/ NextRun

\* lock records of a workspace that an earlier sync left tracked: every
\* entry has the remote token and lists every package file
TrackedStores ==
  {[k \in K |-> [files |-> SetToSeq(Files),
                 name |-> "Locked " \o ToString(k),
                 dependencies |-> <<>>, updated |-> RemoteTs]] :
     K \in SUBSET SyncIds}

\* the tool is started in a tracked workspace with every file in the mirror
InitRerun == InitWith(TrackedStores, {Files})

SpecRerun == InitRerun /\ [][NextAgain]_vars

\* sync_mods(resolved_info) called on its own, as the tests call it, with the
\* fetched metadata of any set of mods, in any workspace
InitSync ==
  /\ pc = "sync"
  /\ run = 1
  /\ remote \in Remotes(SyncIds, 0)
  /\ \E K \in SUBSET SyncIds :
       /\ initial_mods = [k \in K |-> ""]
       /\ resolved_info = [k \in K |-> get_workshop_metadata(k, <<remote[k]>>)]
       /\ order = SetToSeq(K)
       /\ processed = K
       /\ fetched = [x \in Ids |-> IF x \in K THEN 1 ELSE 0]
       /\ source = SourceText([k \in K |-> ""], {})
  /\ ignored_ids = {}
  /\ to_check = <<>>
  /\ fetch_failed = {}
  /\ lock \in LockStores(SyncIds, MaxLocked)
  /\ mirror \in SUBSET Files
  /\ cache = [x \in Ids |-> Unseen]
  /\ needs_download = <<>>
  /\ lock_data = EmptyDict
  /\ current_mods = EmptyDict
  /\ idx = 1
  /\ lock0 = lock
  /\ mirror0 = mirror
  /\ copied = {}
  /\ skipped = {}
  /\ synced = EmptyDict
  /\ launch = [exists |-> TRUE, lines |-> LaunchToml]
  /\ launch0 = launch
  /\ AuditIdle
  /\ FreshProcess
  /\ ReleaseIdle

NextSync ==
  SyncBegin \/ SyncMod \/ SyncCleanup \/ SyncWriteLock \/ PatchLaunch

\* keys/ before the sync: missing, empty, or found with whatever files
KeysDirs == {"missing", "empty", "found"}

\* sync_mods called on its own in a workspace with any keys directory
InitKeys ==
  /\ pc = "sync"
  /\ run = 1
  /\ remote \in Remotes(SyncIds, 0)
  /\ \E K \in SUBSET SyncIds :
       /\ initial_mods = [k \in K |-> ""]
       /\ resolved_info = [k \in K |-> get_workshop_metadata(k, <<remote[k]>>)]
       /\ order = SetToSeq(K)
       /\ processed = K
       /\ fetched = [x \in Ids |-> IF x \in K THEN 1 ELSE 0]
       /\ source = SourceText([k \in K |-> ""], {})
  /\ ignored_ids = {}
  /\ to_check = <<>>
  /\ fetch_failed = {}
  /\ lock \in TrackedStores
  /\ mirror \in SUBSET Files
  /\ cache = [x \in Ids |-> Unseen]
  /\ needs_download = <<>>
  /\ lock_data = EmptyDict
  /\ current_mods = EmptyDict
  /\ idx = 1
  /\ lock0 = lock
  /\ mirror0 = mirror
  /\ copied = {}
  /\ skipped = {}
  /\ synced = EmptyDict
  /\ launch = [exists |-> TRUE, lines |-> LaunchToml]
  /\ launch0 = launch
  /\ AuditIdle
  /\ steamcmd = <<>>
  /\ base_workshop_path = "unset"
  /\ addons_made = FALSE
  /\ keys \in KeysDirs
  /\ lock_writes = 0
  /\ launch_writes = 0
  /\ resolved_prev = EmptyDict
  /\ failed_prev = {}
  /\ cache_prev = [x \in Ids |-> Unseen]
  /\ ReleaseIdle

SpecKeys == InitKeys /\ [][NextSync]_vars

SpecSync == InitSync /\ [][NextSync]_vars

\* a sync that may be interrupted once, and the run after it
NextCrash == Next \/ Crash \/ CrashInCopy \/ CrashInCleanup \/ Restart

SpecCrash == InitSync /\ [][NextCrash]_vars

\* ------------------------------------------------ resolver properties
\* dependencies the Metadata Client reported for x in this run
ReportedDeps(x) == IF x \in fetch_failed THEN <<>> ELSE remote[x].required

\* ids reachable from S along reported edges, never entering an id of Block
RECURSIVE ReachAvoiding(_, _)
ReachAvoiding(S, Block) ==
  LET step == S \cup {d \in UNION {Range(ReportedDeps(x)) : x \in S} :
                        d \notin Block}
  IN IF step = S THEN S ELSE ReachAvoiding(step, Block)

Wanted == DOMAIN initial_mods
Resolved == DOMAIN resolved_info

\* what resolve_dependencies stores for a reachable page of x
OwnMetadata(x) ==
  [name |-> IF x \in Wanted /\ initial_mods[x] # "" THEN initial_mods[x] ELSE PageTitle(x),
   dependencies |-> remote[x].required, updated |-> RemoteTs]


\* C1 (as claimed): no id of the IgnoreSet is ever passed to the Metadata
\* Client, and none is a key of the ResolvedSet that resolve_dependencies
\* returns.
C1_IgnoreCorrectness ==
  \A i \in ignored_ids :
    /\ fetched[i] = 0
    /\ pc = "returned" => i \notin Resolved

\* C2 (as claimed): on return the key set of the ResolvedSet is exactly the
\* set of ids reachable from the wanted-set along reported dependency edges
\* through paths on which no id is in the IgnoreSet.
C2_ClosureExact ==
  pc = "returned" =>
    Resolved = ReachAvoiding(Wanted \ ignored_ids, ignored_ids)

\* C3: get_workshop_metadata is called at most once per id in one run of
\* resolve_dependencies, and every resolved id was fetched once and has
\* exactly one entry in the ResolvedSet.
C3_FetchOnce ==
  /\ \A x \in Ids : fetched[x] <= 1
  /\ \A x \in Resolved : fetched[x] = 1
  /\ Len(order) = Cardinality(Resolved)
  /\ Range(order) = Resolved

\* a diamond has resolved: two different resolved mods list the same
\* dependency, which was fetched
C3_Witness ==
  /\ pc = "returned"
  /\ \E a, b, c \in Resolved :
       /\ a # b /\ c # a /\ c # b
       /\ c \in Range(resolved_info[a].dependencies)
       /\ c \in Range(resolved_info[b].dependencies)
       /\ fetched[c] = 1

Placeholder(x) ==
  [name |-> PlaceholderName(x), dependencies |-> <<>>, updated |-> "0"]

Planned ==
  pc \in {"download", "sync", "sync_loop", "write", "patch", "done", "failed"}

\* the loop of sync_mods has handled mid in this run
Handled(mid) ==
  /\ pc \in {"sync_loop", "write", "patch", "done"}
  /\ \E i \in 1..(idx - 1) : i <= Len(order) /\ order[i] = mid

\* the lock entry the run found for mid has a non-empty file list and every
\* path of it was on disk
LockedFilesFound(mid) ==
  /\ mid \in DOMAIN lock0
  /\ lock0[mid].files # <<>>
  /\ Range(lock0[mid].files) \subseteq mirror0

\* ... and its token equals the current one
FreshLocked(mid) ==
  LockedFilesFound(mid) /\ lock0[mid].updated = resolved_info[mid].updated

\* ... and its token is "0" or missing
UntrackedLocked(mid) ==
  LockedFilesFound(mid) /\ lock0[mid].updated \in {"0", NoKey}

\* C5: a resolved id whose current token equals the token of its lock entry
\* and whose lock entry has a non-empty file list, all on disk, is not put
\* into needs_download; sync_mods carries its lock entry over unchanged and
\* copies no file for it.
C5_FreshnessDiffing ==
  \A mid \in Resolved :
    FreshLocked(mid) =>
      /\ Planned => mid \notin Range(needs_download)
      /\ Handled(mid) =>
           /\ mid \in DOMAIN current_mods
           /\ current_mods[mid] = lock0[mid]
           /\ mid \notin copied
      /\ pc = "done" => mid \in DOMAIN lock /\ lock[mid] = lock0[mid]

\* a sync completed for a mod that was fresh with a token from the remote
C5_Witness ==
  /\ pc = "done"
  /\ \E mid \in Resolved :
       /\ FreshLocked(mid)
       /\ lock0[mid].updated = RemoteTs
       /\ lock[mid] = lock0[mid]

\* C6 (as claimed): an id that a completed run copied from its cache
\* directory and wrote to the lock record with the token the remote gave is
\* not selected for download by a later run that is given the same token, no
\* file having been touched from outside in between.
C6_NoRedundantDownload ==
  pc = "download" =>
    \A x \in DOMAIN synced \cap Resolved :
      (synced[x] # "0" /\ resolved_info[x].updated = synced[x])
        => x \notin Range(needs_download)

\* C7: a resolved id whose lock entry has the token "0" or none and a
\* non-empty file list, all on disk, is not put into needs_download, and the
\* lock record written by the sync holds it with the current token and with
\* the files, name and dependencies of the old entry.
C7_RetroactiveLock ==
  \A mid \in Resolved :
    UntrackedLocked(mid) =>
      /\ Planned => mid \notin Range(needs_download)
      /\ pc = "done" =>
           /\ mid \in DOMAIN lock
           /\ lock[mid] = [lock0[mid] EXCEPT
                             !.updated = resolved_info[mid].updated]

\* a sync completed that gave an entry without token the remote token
C7_Witness ==
  /\ pc = "done"
  /\ \E mid \in Resolved :
       /\ UntrackedLocked(mid)
       /\ lock0[mid].updated = NoKey
       /\ lock[mid].updated = RemoteTs

\* C8: after a completed sync no file recorded under an id of the previous
\* lock record that is no longer resolved is left in the mirror, and that id
\* is no key of the written lock record.
C8_Cleanup ==
  pc = "done" =>
    \A x \in DOMAIN lock0 \ Resolved :
      /\ Range(lock0[x].files) \cap mirror = {}
      /\ x \notin DOMAIN lock

\* a sync completed that removed a file of a dropped mod
C8_Witness ==
  /\ pc = "done"
  /\ \E x \in DOMAIN lock0 \ Resolved :
       \E f \in Range(lock0[x].files) : f \in mirror0 /\ f \notin mirror

\* C9 (as claimed): after a completed sync every path in the file list of
\* every entry of the written lock record exists in the mirror.
C9_LockFilesExist ==
  pc = "done" =>
    \A x \in DOMAIN lock : Range(lock[x].files) \subseteq mirror

\* C10: after a completed sync every key of the written lock record is a key
\* of the ResolvedSet of that run.
C10_NoOrphans ==
  pc = "done" => DOMAIN lock \subseteq Resolved

\* a sync completed that wrote an entry while the previous lock record held
\* an id that is no longer resolved
C10_Witness ==
  /\ pc = "done"
  /\ DOMAIN lock0 \ Resolved # {}
  /\ DOMAIN lock # {}

\* ------------------------------------------------------ whole-run properties
\* the fetches of this run failed for the ids for which they failed in the
\* previous run: the metadata client returned the same metadata
SameMetadata == fetch_failed = failed_prev

\* every cache directory the previous run looked at is as it was
SameCache ==
  \A x \in Ids : cache_prev[x] # Unseen => cache[x] = cache_prev[x]

Resolving == pc \in {"main", "resolve", "loop"}

\* C11 (as claimed): a run that follows a completed run, with the same source
\* list, the same remote metadata and the same cache content, produces the
\* same ResolvedSet, and the lock record it writes equals the one the
\* previous run wrote.
C11_Idempotence ==
  (run > 1 /\ SameMetadata) =>
    /\ ~Resolving => resolved_info = resolved_prev
    /\ (pc = "done" /\ SameCache) => lock = lock0

\* a steamcmd invocation of this run exited with a non-zero status
DownloaderFailed == \E k \in 1..Len(steamcmd) : steamcmd[k].returncode # 0

\* C12: once the downloader has exited with a non-zero status the process
\* has ended with a non-zero status, the downloader was invoked once, and
\* no later step has run: the keys directory is as the run found it, no file
\* was copied into or deleted from the mirror, the lock record was not
\* written and the build config was not patched.
C12_DownloaderFailureFatal ==
  DownloaderFailed =>
    /\ pc = "failed"
    /\ Len(steamcmd) = 1
    /\ keys = "found"
    /\ copied = {}
    /\ mirror = mirror0
    /\ lock_writes = 0
    /\ lock = lock0
    /\ launch_writes = 0

\* the downloader failed in a workspace that had a lock entry and a file
C12_Witness ==
  /\ DownloaderFailed
  /\ pc = "failed"
  /\ lock # EmptyDict
  /\ mirror # {}

\* C13: when the cache directory of a resolved id that needs copying is
\* absent, sync_mods skips that id only (no file copied, no lock entry for
\* it), the process does not fail and the sync can always go on; at the end
\* every other resolved id has its lock entry, the files of the dropped
\* entries are gone from the mirror, the lock record is written once with
\* the new entries and the build config is patched with every resolved id.
C13_MissingCacheTolerated ==
  /\ pc = "failed" => skipped = {}
  /\ \A x \in skipped : x \notin copied /\ x \notin DOMAIN current_mods
  /\ (skipped # {} /\ pc \in {"sync_loop", "write", "patch"}) =>
       ENABLED (SyncMod \/ SyncCleanup \/ SyncWriteLock \/ PatchLaunch)
  /\ (skipped # {} /\ pc \in {"write", "patch", "done"}) =>
       /\ \A y \in Resolved \ skipped : y \in DOMAIN current_mods
       /\ StaleFiles(lock0, resolved_info) \cap mirror = {}
  /\ (skipped # {} /\ pc = "done") =>
       /\ lock_writes = 1
       /\ lock = current_mods
       /\ launch_writes = 1
       /\ \A y \in Resolved : ElementLine(y) \in Range(launch.lines)

\* a sync completed that skipped one mod and copied another one after it
C13_Witness ==
  /\ pc = "done"
  /\ \E x \in skipped, y \in copied : x < y /\ y \in DOMAIN lock

\* C14: when sync_mods found no cache root, the process has ended with a
\* non-zero status and sync_mods had no effect: addons/ was not made, keys/
\* was not purged, no file was copied into or deleted from the mirror, the
\* lock record was not written and the build config was not patched,
\* whatever the ResolvedSet holds.
C14_NoCacheRootFatal ==
  base_workshop_path = "none" =>
    /\ pc = "failed"
    /\ ~addons_made
    /\ keys = "found"
    /\ copied = {}
    /\ mirror = mirror0
    /\ lock_writes = 0
    /\ lock = lock0
    /\ launch_writes = 0

\* no cache root was found by a sync of the empty ResolvedSet that had a
\* dropped entry with a file on disk to clean up
C14_Witness ==
  /\ base_workshop_path = "none"
  /\ Resolved = {}
  /\ \E x \in DOMAIN lock : Range(lock[x].files) \cap mirror # {}

\* C20 (as claimed): the lock record written at the end of a completed sync
\* has as its key set exactly the key set of the ResolvedSet of that run,
\* also when the cache directory of a resolved id is absent.
C20_AsClaimed ==
  pc = "done" => DOMAIN lock = Resolved

\* C20 (amended): the lock record written at the end of a completed sync has
\* as its key set exactly the ids of the ResolvedSet of that run that the sync
\* did not skip for an absent cache directory.
C20_LockCoversResolved ==
  pc = "done" => DOMAIN lock = Resolved \ skipped

\* a sync completed that carried the entry of one mod over and skipped
\* another resolved mod
C20_Witness ==
  /\ pc = "done"
  /\ skipped # {}
  /\ \E x \in DOMAIN lock : x \notin copied /\ lock[x].files = lock0[x].files

\* ------------------------------------------------ later whole-run properties
\* the lock entry the run found for mid has a token other than "0", and all
\* its files were on disk
TrackedLocked(mid) ==
  LockedFilesFound(mid) /\ lock0[mid].updated \notin {"0", NoKey}

\* C21 (as claimed): when the fetch of a resolved id fails, so that its
\* metadata is the placeholder with token "0", while its lock entry has a
\* token other than "0" and all its locked files are on disk, the planner does
\* not put the id into needs_download, and the lock record the sync writes
\* keeps the token, name and file list of the previous entry.
C21_UnknownFreshness ==
  \A mid \in Resolved \cap fetch_failed :
    TrackedLocked(mid) =>
      /\ Planned => mid \notin Range(needs_download)
      /\ pc = "done" =>
           /\ mid \in DOMAIN lock
           /\ lock[mid].updated = lock0[mid].updated
           /\ lock[mid].name = lock0[mid].name
           /\ lock[mid].files = lock0[mid].files

\* the run follows an interrupted sync and had the same metadata and cache
AfterCrash == run > 1 /\ pc = "done" /\ SameMetadata /\ SameCache

\* C22 (as claimed): the run that follows an interrupted sync, with the same
\* source list, remote metadata and cache content, ends with every file path
\* of the written lock record in the mirror, every recorded token equal to the
\* current token of its mod, and no file that the lock record of before the
\* crash lists for an id outside the ResolvedSet left in the mirror.
C22_SelfHealing ==
  AfterCrash =>
    /\ \A x \in DOMAIN lock : Range(lock[x].files) \subseteq mirror
    /\ \A x \in DOMAIN lock : lock[x].updated = resolved_info[x].updated
    /\ \A x \in DOMAIN lock0 \ Resolved : Range(lock0[x].files) \cap mirror = {}

\* ids of the IgnoreSet that the lock record of before the run holds
IgnoredLocked == ignored_ids \cap DOMAIN lock0

\* C23 (as claimed): a sync deletes no mirror file recorded under the lock
\* entry of an id of the IgnoreSet.
C23_AsClaimed ==
  \A i \in IgnoredLocked : Range(lock0[i].files) \cap mirror0 \subseteq mirror

\* C23 (amended): ids of the IgnoreSet are cleaned up like every other id
\* that is not resolved: after a completed sync no file recorded under the
\* previous lock entry of an ignored id outside the ResolvedSet is left in the
\* mirror, and the written lock record has no entry for it.
C23_IgnoredCleanedUp ==
  pc = "done" =>
    \A i \in IgnoredLocked \ Resolved :
      /\ Range(lock0[i].files) \cap mirror = {}
      /\ i \notin DOMAIN lock

\* a sync completed that removed a file of an ignored mod
C23_Witness ==
  /\ pc = "done"
  /\ \E i \in IgnoredLocked \ Resolved :
       \E f \in Range(lock0[i].files) : f \in mirror0 /\ f \notin mirror

\* C24: in a sync that got past cache-root discovery the keys directory is
\* empty from the purge on: before the first file is copied into the mirror,
\* at every later step, and when the sync completes, whatever the keys
\* directory held before.
C24_KeyPurge ==
  /\ base_workshop_path = "found" => keys = "empty"
  /\ pc \in {"sync_loop", "write", "patch", "done"} => keys = "empty"
  /\ copied # {} => keys = "empty"

\* a sync that copied a mod completed
C24_Witness ==
  /\ pc = "done"
  /\ copied # {}
  /\ keys = "empty"

\* the download step of this run is over
Downloaded ==
  pc \in {"sync", "sync_loop", "write", "patch", "done", "failed"}

C26_SingleLockWriter ==
  /\ [][(lock' # lock \/ lock_writes' # lock_writes) =>
          /\ pc = "write" /\ pc' = "patch"
          /\ idx > Len(order)
          /\ lock_writes = 0 /\ lock_writes' = 1
          /\ launch_writes = 0]_vars
  /\ [][mirror' # mirror => lock_writes = 0]_vars
  /\ [][launch' # launch => lock_writes = 1]_vars
  /\ [](pc = "done" => lock_writes = 1)
  /\ [](pc \notin {"patch", "done"} => lock = lock0 /\ lock_writes = 0)

\* the lock record was written, after a copy and a removal, and the build
\* config is not patched yet
C26_Witness ==
  /\ pc = "patch"
  /\ lock_writes = 1
  /\ lock # lock0
  /\ copied # {}
  /\ mirror0 \ mirror # {}
  /\ launch = launch0

\* ---------------------------------------------------- parser properties
\* the words a line of the source list is made of
Words ==
  {IdToken(i) : i \in SyncIds}
  \cup {"id=" \o IdToken(1), "ignore=" \o IdToken(1),
        "IGNORE=" \o IdToken(1), "@ignore", "@Ignore", "[ignore]",
        "[Ignored]", "#", "1234567", "Tag"}

\* a source list is written stroke by stroke, a stroke being a blank line, a
\* new line with one word, or one more word on the last line
Strokes ==
  {<<"blank", "">>} \cup {<<"line", w>> : w \in Words}
  \cup {<<"word", w>> : w \in Words}

RECURSIVE Written(_)
Written(strokes) ==
  IF strokes = <<>> THEN <<>>
  ELSE LET f == Written(SubSeq(strokes, 1, Len(strokes) - 1))
           stroke == strokes[Len(strokes)]
       IN IF stroke[1] = "blank" THEN Append(f, <<>>)
          ELSE IF stroke[1] = "line" \/ f = <<>> THEN Append(f, <<stroke[2]>>)
          ELSE [f EXCEPT ![Len(f)] = Append(@, stroke[2])]

\* lines 414-415: the two parsers read the source list
ParseSources ==
  /\ pc = "parse"
  /\ initial_mods' = get_mod_ids_from_file(source)
  /\ ignored_ids' = get_ignored_ids_from_file(source)
  /\ pc' = "parsed"
  /\ UNCHANGED <<run, remote, resolveVars, restVars>>

InitParse ==
  /\ pc = "parse"
  /\ run = 1
  /\ \E n \in 0..MaxWords :
       \E strokes \in [1..n -> Strokes] : source = Written(strokes)
  /\ initial_mods = EmptyDict
  /\ ignored_ids = {}
  /\ remote \in Remotes(SyncIds, 0)
  /\ to_check = <<>>
  /\ processed = {}
  /\ resolved_info = EmptyDict
  /\ order = <<>>
  /\ fetched = [x \in Ids |-> 0]
  /\ fetch_failed = {}
  /\ NoWorkspace
  /\ launch = [exists |-> FALSE, lines |-> <<>>]
  /\ launch0 = launch
  /\ AuditIdle
  /\ FreshProcess
  /\ ReleaseIdle

SpecParse == InitParse /\ [][ParseSources]_vars

\* ------------------------------------------------ release tool
\* the digits a define of script_version.hpp may carry for the number n
Numeral(n) == {ToString(n), "0" \o ToString(n)}

\* int(): the number a matched run of digits stands for
ParseInt(text) == CHOOSE n \in 0..(MaxVersion + 1) : text \in Numeral(n)

\* the three defines the tool reads; "" when the define is not in the file
Defines == {"MAJOR", "MINOR", "PATCHLVL"}
VersionFiles ==
  [Defines -> UNION {Numeral(n) : n \in 0..MaxVersion} \cup {""}]

\* script_version.hpp does not exist
NoFile == [d \in Defines |-> "missing"]

VersionString(major, minor, patch) == major \o "." \o minor \o "." \o patch

\* lines 52-61
get_current_version(file) ==
  IF file = NoFile THEN [str |-> "0.0.0", tuple |-> <<0, 0, 0>>]
  ELSE [str |-> VersionString(file.MAJOR, file.MINOR, file.PATCHLVL),
        tuple |-> <<ParseInt(file.MAJOR), ParseInt(file.MINOR),
                    ParseInt(file.PATCHLVL)>>]

\* lines 66-74, with the reset of the patch level on a minor bump left out
Bumped_patch_kept(part, v) ==
  IF part = "major" THEN <<v[1] + 1, 0, 0>>
  ELSE IF part = "minor" THEN <<v[1], v[2] + 1, v[3]>>
  ELSE <<v[1], v[2], v[3] + 1>>

\* lines 66-74
Bumped(part, v) ==
  IF part = "major" THEN <<v[1] + 1, 0, 0>>
  ELSE IF part = "minor" THEN <<v[1], v[2] + 1, 0>>
  ELSE <<v[1], v[2], v[3] + 1>>

\* re.search(...).group(1) of a define the file does not hold raises
Readable(file) == file # NoFile /\ \A d \in Defines : file[d] # ""

\* lines 63-89: bump_version(part); an exception ends the tool
BumpVersion ==
  /\ pc = "release"
  /\ \E part \in {"major", "minor", "patch", "build"} :
       IF Readable(version_file)
       THEN LET read == get_current_version(version_file)
                v == Bumped(part, read.tuple)
            IN /\ \A k \in 1..3 : read.tuple[k] <= MaxVersion
               /\ version_file' = [MAJOR |-> ToString(v[1]),
                                   MINOR |-> ToString(v[2]),
                                   PATCHLVL |-> ToString(v[3])]
               /\ new_version' = VersionString(ToString(v[1]), ToString(v[2]),
                                               ToString(v[3]))
               /\ bump_from' = <<part, read.str, read.tuple>>
               /\ pc' = "release"
       ELSE /\ pc' = "failed"
            /\ UNCHANGED releaseVars
  /\ UNCHANGED <<run, inputVars, resolveVars, diskVars, needs_download,
                 syncVars, histVars, effectVars, prevVars, source, launch0,
                 auditVars>>

InitRelease ==
  /\ pc = "release"
  /\ run = 1
  /\ source = <<>>
  /\ initial_mods = EmptyDict
  /\ ignored_ids = {}
  /\ remote \in Remotes(SyncIds, 0)
  /\ to_check = <<>>
  /\ processed = {}
  /\ resolved_info = EmptyDict
  /\ order = <<>>
  /\ fetched = [x \in Ids |-> 0]
  /\ fetch_failed = {}
  /\ NoWorkspace
  /\ launch = [exists |-> FALSE, lines |-> <<>>]
  /\ launch0 = launch
  /\ AuditIdle
  /\ FreshProcess
  /\ version_file \in VersionFiles \cup {NoFile}
  /\ new_version = ""
  /\ bump_from = <<>>

SpecRelease == InitRelease /\ [][BumpVersion]_vars

\* C18: after bump_version(part) on a version file that holds (major, minor,
\* patch), the file holds (major, minor, patch+1) for "patch", (major,
\* minor+1, 0) for "minor" and (major+1, 0, 0) for "major", and the string
\* bump_version returned is the one get_current_version reads back.
C18_VersionBump ==
  bump_from # <<>> =>
    LET part == bump_from[1]
        v == bump_from[3]
        back == get_current_version(version_file)
    IN /\ part = "patch" => back.tuple = <<v[1], v[2], v[3] + 1>>
       /\ part = "minor" => back.tuple = <<v[1], v[2] + 1, 0>>
       /\ part = "major" => back.tuple = <<v[1] + 1, 0, 0>>
       /\ new_version = back.str

\* a minor bump of a version with a patch level, read from digits with a
\* leading zero
C18_Witness ==
  /\ bump_from # <<>>
  /\ bump_from[1] = "minor"
  /\ bump_from[3][3] > 0
  /\ bump_from[2] # VersionString(ToString(bump_from[3][1]),
                                  ToString(bump_from[3][2]),
                                  ToString(bump_from[3][3]))
  /\ version_file.PATCHLVL = "0"

\* ------------------------------------------------ config patch properties
\* lines a build config is made of
CfgLines ==
  {"[default]", "workshop = [", "workshop = []", "]", "dlc = []",
   "mission = test"} \cup {ElementLine(i) : i \in SyncIds}

\* build configs of at most n lines
CfgFiles(n) == UNION {[1..k -> CfgLines] : k \in 0..n}

InitPatch ==
  /\ pc = "patch"
  /\ run = 1
  /\ remote \in Remotes(SyncIds, 0)
  /\ \E K \in SUBSET SyncIds :
       /\ initial_mods = [k \in K |-> ""]
       /\ resolved_info = [k \in K |-> get_workshop_metadata(k, <<remote[k]>>)]
       /\ order = SetToSeq(K)
       /\ processed = K
       /\ fetched = [x \in Ids |-> IF x \in K THEN 1 ELSE 0]
       /\ source = SourceText([k \in K |-> ""], {})
  /\ ignored_ids = {}
  /\ to_check = <<>>
  /\ fetch_failed = {}
  /\ NoWorkspace
  /\ \/ launch = [exists |-> FALSE, lines |-> <<>>]
     \/ \E lines \in CfgFiles(MaxCfgLines) :
          launch = [exists |-> TRUE, lines |-> lines]
  /\ launch0 = launch
  /\ AuditIdle
  /\ FreshProcess
  /\ ReleaseIdle

SpecPatch == InitPatch /\ [][PatchLaunch]_vars

\* the lines of a build config that are not element lines of a workshop
\* array: an array is open after a `workshop =` line that does not close it,
\* up to the next line with a `]`
RECURSIVE OutsideArray(_, _)
OutsideArray(lines, in_array) ==
  IF lines = <<>> THEN <<>>
  ELSE LET line == Head(lines)
       IN IF HasWorkshop(line)
          THEN <<line>> \o OutsideArray(Tail(lines), ~HasClose(line))
          ELSE IF in_array
          THEN IF HasClose(line)
               THEN <<line>> \o OutsideArray(Tail(lines), FALSE)
               ELSE OutsideArray(Tail(lines), TRUE)
          ELSE <<line>> \o OutsideArray(Tail(lines), FALSE)

\* s can be obtained from t by leaving lines out
RECURSIVE IsSubSeq(_, _)
IsSubSeq(s, t) ==
  IF s = <<>> THEN TRUE
  ELSE IF t = <<>> THEN FALSE
  ELSE IF Head(s) = Head(t) THEN IsSubSeq(Tail(s), Tail(t))
  ELSE IsSubSeq(s, Tail(t))

\* C17: after sync_hemtt_launch has patched a build config that holds a
\* `workshop =` line, every line that was not an element line of the
\* workshop array is still there, unchanged and in its original order, also
\* when the array is closed on the `workshop =` line itself; a build config
\* without a `workshop =` line is written back as it was.
C17_ConfigPatchFrame ==
  (pc = "done" /\ launch0.exists) =>
    /\ IsSubSeq(OutsideArray(launch0.lines, FALSE), launch.lines)
    /\ (\A k \in 1..Len(launch0.lines) : ~HasWorkshop(launch0.lines[k]))
         => launch.lines = launch0.lines

\* the words that hold an inline ignore marker, and those that hold an
\* ignore-block marker, in any letter case
InlineWords ==
  {"@ignore", "@Ignore"}
  \cup UNION {{"ignore=" \o n, "IGNORE=" \o n} : n \in Numerals}
BlockWords == {"[ignore]", "[IGNORE]", "[ignored]", "[Ignored]"}

\* the mod id a word holds as a numeral of at least 8 digits
IdsOfWord(w) ==
  {i \in SyncIds : w \in {IdToken(i), "id=" \o IdToken(i),
                          "ignore=" \o IdToken(i), "IGNORE=" \o IdToken(i)}}
IdsOfLine(line) == UNION {IdsOfWord(line[k]) : k \in 1..Len(line)}

\* the id of the first such numeral of a line, if any
FirstIdOfLine(line) ==
  LET at == {k \in 1..Len(line) : IdsOfWord(line[k]) # {}}
  IN IF at = {} THEN {}
     ELSE IdsOfWord(line[CHOOSE k \in at : \A j \in at : k <= j])

\* the lines of the source list that are neither blank nor comments
Directives == {k \in 1..Len(source) : source[k] # <<>> /\ source[k][1] # "#"}
InlineLines ==
  {k \in Directives : Range(source[k]) \cap InlineWords # {}}
BlockLines ==
  {k \in Directives : Range(source[k]) \cap BlockWords # {}}
PlainLines == Directives \ (InlineLines \cup BlockLines)

\* the line that starts the ignore block (past the end without one)
BlockStart ==
  IF BlockLines = {} THEN Len(source) + 1
  ELSE CHOOSE k \in BlockLines : \A j \in BlockLines : k <= j

\* C15: for a source list without an ignore-block marker, the IgnoreSet is
\* made of every numeral of at least 8 digits of the lines that hold an
\* inline ignore marker (any letter case) and of nothing else, and the
\* wanted-set of the first such numeral of every other line and of nothing
\* else: no line adds to both sets.
C15_InlineIgnoreLines ==
  (pc = "parsed" /\ BlockLines = {}) =>
    /\ ignored_ids = UNION {IdsOfLine(source[k]) : k \in InlineLines}
    /\ DOMAIN initial_mods =
         UNION {FirstIdOfLine(source[k]) : k \in PlainLines}

\* a list was parsed whose inline ignore line names two ids and whose other
\* line names a wanted id
C15_Witness ==
  /\ pc = "parsed"
  /\ BlockLines = {}
  /\ \E k \in InlineLines : Cardinality(IdsOfLine(source[k])) = 2
  /\ initial_mods # EmptyDict

\* C16 (as claimed): no line after the first line that holds an ignore-block
\* marker adds to the wanted-set, every numeral of at least 8 digits of
\* every later non-blank, non-comment line is in the IgnoreSet, and both
\* parsers start the block at that line.
C16_AsClaimed ==
  pc = "parsed" =>
    /\ DOMAIN initial_mods =
         UNION {FirstIdOfLine(source[k]) :
                  k \in {j \in PlainLines : j < BlockStart}}
    /\ ignored_ids =
         UNION {IdsOfLine(source[k]) :
                  k \in {j \in InlineLines : j < BlockStart}
                        \cup {j \in Directives : j > BlockStart}}

\* C16 (amended): ..., every numeral of at least 8 digits of every later
\* non-blank, non-comment line that holds no ignore-block marker itself is
\* in the IgnoreSet, and both parsers start the block at that line.
C16_IgnoreBlock ==
  pc = "parsed" =>
    /\ DOMAIN initial_mods =
         UNION {FirstIdOfLine(source[k]) :
                  k \in {j \in PlainLines : j < BlockStart}}
    /\ ignored_ids =
         UNION {IdsOfLine(source[k]) :
                  k \in {j \in InlineLines : j < BlockStart}
                        \cup {j \in Directives \ BlockLines : j > BlockStart}}

\* a list was parsed that names a wanted id, then starts the block, then
\* names an id without any marker
C16_Witness ==
  /\ pc = "parsed"
  /\ initial_mods # EmptyDict
  /\ \E k \in PlainLines :
       /\ k > BlockStart
       /\ IdsOfLine(source[k]) # {}
       /\ IdsOfLine(source[k]) \subseteq ignored_ids \ DOMAIN initial_mods

\* resolve_dependencies(initial_mods, ignored_ids) called on its own
InitResolve ==
  /\ pc = "resolve"
  /\ run = 1
  /\ \E sl \in SourceLists(Ids, MaxLines, Tags) :
       /\ initial_mods = sl.mods
       /\ ignored_ids = sl.ignored
       /\ source = SourceText(sl.mods, sl.ignored)
  /\ remote \in Remotes(Ids, MaxEdges)
  /\ to_check = <<>>
  /\ processed = {}
  /\ resolved_info = EmptyDict
  /\ order = <<>>
  /\ fetched = [x \in Ids |-> 0]
  /\ fetch_failed = {}
  /\ NoWorkspace
  /\ launch = [exists |-> FALSE, lines |-> <<>>]
  /\ launch0 = launch
  /\ AuditIdle
  /\ FreshProcess
  /\ ReleaseIdle

NextResolve == ResolveBegin \/ ResolveStep \/ ResolveReturn

SpecResolve == InitResolve /\ [][NextResolve]_vars

\* the interpreter runs the loop of resolve_dependencies to its end: a fetch
\* returns within its timeout (line 104), so a step that can be taken is taken
\* resolve_dependencies called on untagged source lists and dependency graphs
\* over SyncIds
InitTerminate ==
  /\ pc = "resolve"
  /\ run = 1
  /\ \E sl \in SourceLists(SyncIds, MaxLines, {""}) :
       /\ initial_mods = sl.mods
       /\ ignored_ids = sl.ignored
       /\ source = SourceText(sl.mods, sl.ignored)
  /\ remote \in Remotes(SyncIds, MaxEdges)
  /\ to_check = <<>>
  /\ processed = {}
  /\ resolved_info = EmptyDict
  /\ order = <<>>
  /\ fetched = [x \in Ids |-> 0]
  /\ fetch_failed = {}
  /\ NoWorkspace
  /\ launch = [exists |-> FALSE, lines |-> <<>>]
  /\ launch0 = launch
  /\ AuditIdle
  /\ FreshProcess
  /\ ReleaseIdle

SpecResolveFair ==
  InitTerminate /\ [][NextResolve]_vars /\ WF_vars(NextResolve)

\* C19: for every wanted-set, IgnoreSet and dependency graph, with cycles,
\* self-dependencies and failing fetches, the worklist loop of
\* resolve_dependencies eventually finds its frontier empty and returns, and
\* no step of the run takes an element out of processed.
C19_ResolverTerminates ==
  /\ <>(pc = "returned")
  /\ [][processed \subseteq processed']_vars

\* the resolver returned after walking round a cycle of two mods
C19_Witness ==
  /\ pc = "returned"
  /\ \E x, y \in DOMAIN resolved_info \ fetch_failed :
       /\ x # y
       /\ y \in Range(remote[x].required)
       /\ x \in Range(remote[y].required)

\* the lines that open a workshop array, and the line that closes the array
\* opened at line k: the first later line with a `]`
Openings(lines) == {k \in 1..Len(lines) : HasWorkshop(lines[k])}
Closings(lines, k) == {j \in (k + 1)..Len(lines) : HasClose(lines[j])}
CloseOf(lines, k) ==
  CHOOSE j \in Closings(lines, k) : \A i \in Closings(lines, k) : j <= i

\* every `workshop =` line of the file opens an array that a later line
\* closes, and there is one
ArraysClosed(lines) ==
  /\ Openings(lines) # {}
  /\ \A k \in Openings(lines) :
       /\ ~HasClose(lines[k])
       /\ Closings(lines, k) # {}
       /\ \A i \in (k + 1)..(CloseOf(lines, k) - 1) : ~HasWorkshop(lines[i])

\* C27: after sync_hemtt_launch on a build config whose workshop array opens
\* on a `workshop =` line and closes on a later line with a `]`, the lines
\* between the opening and the closing line are one line per id of the
\* ResolvedSet, each id once, in ascending order, whatever lines were there
\* before; patching the result once more with the same ids changes nothing.
C27_ConfigBlockContent ==
  (pc = "done" /\ launch0.exists /\ ArraysClosed(launch0.lines)) =>
    LET ids == SetToSeq(Resolved)
    IN /\ ArraysClosed(launch.lines)
       /\ Cardinality(Openings(launch.lines))
            = Cardinality(Openings(launch0.lines))
       /\ \A k \in Openings(launch.lines) :
            LET between == SubSeq(launch.lines, k + 1,
                                  CloseOf(launch.lines, k) - 1)
            IN /\ Len(between) = Len(ids)
               /\ \A i \in 1..Len(ids) : between[i] = ElementLine(ids[i])
       /\ sync_hemtt_launch(launch, Resolved) = launch

\* two resolved ids replaced one stale element line
C27_Witness ==
  /\ pc = "done"
  /\ launch0.exists
  /\ ArraysClosed(launch0.lines)
  /\ Cardinality(Resolved) = 2
  /\ \E k \in Openings(launch0.lines) :
       /\ CloseOf(launch0.lines, k) = k + 2
       /\ launch0.lines[k + 1] \notin Range(launch.lines)


\* ------------------------------------------- the freshness audit
\* tools/workspace_manager.py, cmd_audit_updates: the locked ids of all
\* projects are collected in mod_registry, a pool of worker threads fetches
\* the live token of each, and the main thread builds live_results from what
\* the pool returns.
AuditIds == 1..NumAuditIds

\* ThreadPoolExecutor(max_workers=10)
max_workers == 10

\* the token the page of mid carries
LiveTs(mid) == ToString(mid)

\* get_live_timestamp(mid): the token on the page, "0" when the page has
\* none or the request raised
get_live_timestamp(mid, ok) == IF ok THEN LiveTs(mid) ELSE "0"

\* check_mod(mid) returns the id with its token
check_mod(mid, ok) == <<mid, get_live_timestamp(mid, ok)>>

\* the executor starts one thread per submitted call until it has max_workers
\* of them (a version that reuses an idle thread has no more than these)
PoolThreads_unbounded(submitted) == submitted

PoolThreads(submitted) ==
  IF submitted < max_workers THEN submitted ELSE max_workers

\* the keys of mod_registry in insertion order: the ids of each lock file as
\* json.load yields them, a later project adding only those not yet there
RegistryKeys == SetToSeq(DOMAIN mod_registry)

RECURSIVE Registered(_, _)
Registered(files, registry) ==
  IF files = <<>> THEN registry
  ELSE LET data == Head(files)
           fresh == DOMAIN data \ DOMAIN registry
       IN Registered(Tail(files),
            [mid \in DOMAIN registry \cup fresh |->
               IF mid \in DOMAIN registry THEN registry[mid]
               ELSE data[mid]])

\* dict(pairs)
RECURSIVE DictOf(_)
DictOf(pairs) ==
  IF pairs = <<>> THEN EmptyDict
  ELSE Put(DictOf(SubSeq(pairs, 1, Len(pairs) - 1)),
           pairs[Len(pairs)][1], pairs[Len(pairs)][2])

\* lines 182-190: the registry is built; with no locked id the command
\* returns
AuditRegister ==
  /\ pc = "audit"
  /\ mod_registry' = Registered(projects, EmptyDict)
  /\ pc' = IF DOMAIN mod_registry' = {} THEN "audit_done" ELSE "map"
  /\ UNCHANGED <<projects, work_queue, futures, running, live_results,
                 audit_fetches, down>>
  /\ UNCHANGED <<run, inputVars, resolveVars, diskVars, needs_download,
                 syncVars, histVars, effectVars, prevVars, source,
                 releaseVars, launch0>>

\* line 195, executor.map: the main thread submits check_mod(mid) for the
\* next key of mod_registry
AuditSubmit ==
  /\ pc = "map"
  /\ LET k == Len(futures) + 1
     IN /\ futures' = Append(futures,
                        [mid |-> RegistryKeys[k], done |-> FALSE,
                         result |-> <<>>])
        /\ work_queue' = Append(work_queue, k)
        /\ pc' = IF k = Len(RegistryKeys) THEN "collect" ELSE "map"
  /\ UNCHANGED <<projects, mod_registry, running, live_results,
                 audit_fetches, down>>
  /\ UNCHANGED <<run, inputVars, resolveVars, diskVars, needs_download,
                 syncVars, histVars, effectVars, prevVars, source,
                 releaseVars, launch0>>

\* a worker thread that is not executing a call takes the oldest submitted
\* call and starts get_live_timestamp (lines 193-194, 50-53)
WorkerStart ==
  /\ pc \in {"map", "collect"}
  /\ work_queue # <<>>
  /\ Cardinality(running) < PoolThreads(Len(futures))
  /\ LET k == Head(work_queue)
     IN /\ running' = running \cup {k}
        /\ audit_fetches' =
             Put(audit_fetches, futures[k].mid,
                 IF futures[k].mid \in DOMAIN audit_fetches
                 THEN audit_fetches[futures[k].mid] + 1 ELSE 1)
  /\ work_queue' = Tail(work_queue)
  /\ UNCHANGED <<pc, projects, mod_registry, futures, live_results, down>>
  /\ UNCHANGED <<run, inputVars, resolveVars, diskVars, needs_download,
                 syncVars, histVars, effectVars, prevVars, source,
                 releaseVars, launch0>>

\* the request of a running call ends, with a page or, for an id that is
\* down, with an exception;
\* check_mod advances the progress bar and returns (lines 54-57, 194)
WorkerFinish ==
  /\ pc \in {"map", "collect"}
  /\ \E k \in running :
       /\ futures' = [futures EXCEPT ![k].done = TRUE,
                        ![k].result = check_mod(futures[k].mid,
                                                futures[k].mid \notin down)]
       /\ running' = running \ {k}
  /\ UNCHANGED <<pc, projects, mod_registry, work_queue, live_results,
                 audit_fetches, down>>
  /\ UNCHANGED <<run, inputVars, resolveVars, diskVars, needs_download,
                 syncVars, histVars, effectVars, prevVars, source,
                 releaseVars, launch0>>

\* line 195: dict() has taken the result of every future, in the order of
\* submission, and the executor has shut down
AuditCollect ==
  /\ pc = "collect"
  /\ \A k \in 1..Len(futures) : futures[k].done
  /\ live_results' = DictOf([k \in 1..Len(futures) |-> futures[k].result])
  /\ pc' = "audit_done"
  /\ UNCHANGED <<projects, mod_registry, work_queue, futures, running,
                 audit_fetches, down>>
  /\ UNCHANGED <<run, inputVars, resolveVars, diskVars, needs_download,
                 syncVars, histVars, effectVars, prevVars, source,
                 releaseVars, launch0>>

Worker == WorkerStart \/ WorkerFinish
NextAudit == AuditRegister \/ AuditSubmit \/ WorkerStart \/ WorkerFinish
               \/ AuditCollect

\* the lock files of the audit: n ids locked by the first project, of which
\* the second project locks those it shares under another token
LockFiles(n) ==
  IF n = 0 THEN {<<>>, <<EmptyDict>>}
  ELSE {<<[mid \in 1..n |-> "1"], [mid \in {1, n} |-> "2"]>>,
        <<[mid \in 1..(n - 1) |-> "1"], [mid \in {1, n} |-> "2"]>>}

InitAudit ==
  /\ pc = "audit"
  /\ run = 1
  /\ source = <<>>
  /\ initial_mods = EmptyDict
  /\ ignored_ids = {}
  /\ remote \in Remotes(SyncIds, 0)
  /\ to_check = <<>>
  /\ processed = {}
  /\ resolved_info = EmptyDict
  /\ order = <<>>
  /\ fetched = [x \in Ids |-> 0]
  /\ fetch_failed = {}
  /\ NoWorkspace
  /\ launch = [exists |-> FALSE, lines |-> <<>>]
  /\ launch0 = launch
  /\ FreshProcess
  /\ ReleaseIdle
  /\ \E n \in 0..NumAuditIds : projects \in LockFiles(n)
  /\ mod_registry = EmptyDict
  /\ work_queue = <<>>
  /\ futures = <<>>
  /\ running = {}
  /\ live_results = EmptyDict
  /\ audit_fetches = EmptyDict
  /\ down \in SUBSET {1, NumAuditIds}

SpecAudit == InitAudit /\ [][NextAudit]_vars

\* what the pool has returned for mid
Returned(mid) ==
  {futures[k].result[2] : k \in {i \in 1..Len(futures) :
                                   futures[i].done /\ futures[i].mid = mid}}

\* C28: in cmd_audit_updates, under every interleaving of the worker
\* threads, at most 10 fetches are in flight at once, each locked id is
\* fetched once, no worker thread writes the registry or the result map, and
\* the result map built when the pool has finished has one entry per
\* registered id, holding the token fetched for that id ("0" when the fetch
\* failed).
C28_ConcurrentAudit ==
  /\ [](Cardinality(running) <= 10)
  /\ [](\A mid \in DOMAIN audit_fetches :
          mid \in DOMAIN mod_registry /\ audit_fetches[mid] = 1)
  /\ [][Worker => UNCHANGED <<mod_registry, live_results>>]_vars
  /\ []((pc = "audit_done" /\ DOMAIN mod_registry # {}) =>
          /\ DOMAIN live_results = DOMAIN mod_registry
          /\ DOMAIN audit_fetches = DOMAIN mod_registry
          /\ \A mid \in DOMAIN mod_registry :
               /\ Returned(mid) = {live_results[mid]}
               /\ live_results[mid] =
                    IF mid \in down THEN "0" ELSE LiveTs(mid))
  /\ [](pc # "audit_done" => live_results = EmptyDict)

\* more ids than threads were audited, and the finished audit holds a failed
\* and a live token
C28_Witness ==
  /\ pc = "audit_done"
  /\ Cardinality(DOMAIN mod_registry) > 10
  /\ \E a, b \in DOMAIN live_results :
       live_results[a] = "0" /\ live_results[b] = LiveTs(b)


\* ------------------------------------------- planner and synchronizer
\* __main__ from the planner on (lines 428-456), with the fetched metadata of
\* any set of mods, in any workspace
InitPlan ==
  /\ pc = "returned"
  /\ run = 1
  /\ remote \in Remotes(SyncIds, 0)
  /\ \E K \in SUBSET SyncIds :
       /\ initial_mods = [k \in K |-> ""]
       /\ resolved_info = [k \in K |-> get_workshop_metadata(k, <<remote[k]>>)]
       /\ order = SetToSeq(K)
       /\ processed = K
       /\ fetched = [x \in Ids |-> IF x \in K THEN 1 ELSE 0]
       /\ source = SourceText([k \in K |-> ""], {})
  /\ ignored_ids = {}
  /\ to_check = <<>>
  /\ fetch_failed = {}
  /\ lock \in LockStores(SyncIds, MaxLocked)
  /\ mirror \in SUBSET Files
  /\ cache = [x \in Ids |-> Unseen]
  /\ needs_download = <<>>
  /\ lock_data = EmptyDict
  /\ current_mods = EmptyDict
  /\ idx = 1
  /\ lock0 = lock
  /\ mirror0 = mirror
  /\ copied = {}
  /\ skipped = {}
  /\ synced = EmptyDict
  /\ launch = [exists |-> TRUE, lines |-> LaunchToml]
  /\ launch0 = launch
  /\ AuditIdle
  /\ FreshProcess
  /\ ReleaseIdle

NextPlan == Plan \/ RunSteamcmd \/ NextSync

SpecPlan == InitPlan /\ [][NextPlan]_vars

\* the loop of sync_mods went to the cache directory of mid: it copied the
\* package files from it, or found it missing
TriedCache(mid) == mid \in copied \cup skipped

\* C29: nothing but the run itself touches the mirror between the planner and
\* sync_mods; then for every resolved id sync_mods carries the lock entry over
\* without going to the cache exactly when the planner did not put the id in
\* needs_download.
C29_PlannerAgrees ==
  \A mid \in Resolved :
    Handled(mid) => (~TriedCache(mid) <=> mid \notin Range(needs_download))


\* ------------------------------------------- files the lock lost track of
\* the paths the entries of a lock record name
RecordedPaths(mods) ==
  UNION {Range(mods[mid].files) : mid \in DOMAIN mods}

\* C30: after a completed sync every path the previous lock record named is
\* named by some entry of the lock record just written, or is no longer in
\* the mirror.
C30_NoUntrackedFiles ==
  pc = "done" =>
    \A f \in RecordedPaths(lock0) :
      f \in mirror => f \in RecordedPaths(lock)

====
